---- MODULE Spec2Model ----
(***************************************************************************)
(* Model of the taxfix pipeline: fetch person records from the Faker API   *)
(* in concurrent batches (src/src/fetch_data.py), validate each record,    *)
(* anonymize (src/src/data_anonymization.py), store (src/src/database.py)  *)
(* and report (src/main.py).                                               *)
(*                                                                         *)
(* JSON values are tagged records: every Python/JSON value carries its     *)
(* type in field t, so that the type tests the code performs implicitly    *)
(* (subscripting, ** unpacking, strptime's argument check) are explicit.   *)
(* Floating point numbers are represented by integers: the code never      *)
(* computes with them.                                                     *)
(***************************************************************************)
EXTENDS FiniteSets, Integers, Sequences, TLC

VARIABLES
    response_data,       \* validate_response: the parsed response body
    vr_pc,               \* validate_response: "idle" | "call" | "returned" | "raised"
    valid_persons,       \* validate_response: the list it returned
    validated,           \* elements that were handed to _validate_person
    pc,                  \* position of the main thread in main / fetch_persons
    quantity,            \* fetch_persons: the number of persons requested
    num_batches,         \* fetch_persons: local num_batches
    futures,             \* fetch_persons: the futures submitted, in order
    waiter,              \* as_completed: waiter.finished_futures
    finished,            \* as_completed: the local list being yielded
    pending,             \* as_completed: the futures not yet yielded
    all_persons,         \* fetch_persons: local all_persons
    valid_persons_count, \* fetch_persons: local valid_persons_count
    fetch_calls,         \* the batch numbers _fetch_batch was called with, in order
    completed,           \* the futures in the order in which their fetch ended
    early_count,         \* how many fetches had ended when as_completed was called
    anonymized_persons,  \* main: local anonymized_persons
    db,                  \* the rows of table anonymized_persons (committed)
    report,              \* the report printed by generate_report, if any
    error,               \* the exception that ended main (NoError when none)
    birthday,            \* calculate_age_group: the argument birthday
    now,                 \* calculate_age_group: the date of datetime.now()
    age_pc,              \* calculate_age_group: "idle" | "call" | "done"
    age_ret,             \* calculate_age_group: what it returned or raised
    number_of_countries, \* get_top_gmail_countries: the argument
    report_pc,           \* the report functions: "idle" or the next call
    gmail_users_germany_pct, \* what calculate_gmail_users_germany_percentage returned
    top_gmail_countries, \* what get_top_gmail_countries returned
    gmail_over_60,       \* what count_gmail_users_over_60 returned
    session,             \* Database.transaction: the session and its pending rows
    tx_pc,               \* Database.transaction: position in the context manager
    tx_exc,              \* Database.transaction: the exception in flight ("" if none)
    db_before,           \* the committed rows when the transaction began
    tx_added,            \* the rows the with-block has added so far
    tx_count,            \* the number of transactions begun
    fb_pc,               \* _fetch_batch: "idle" | "get" | "returned" | "raised"
    retries_total,       \* session.get: Retry.total, the retries that are left
    attempts,            \* session.get: the requests sent so far
    responses,           \* session.get: the responses received so far
    fb_exc,              \* _fetch_batch: the exception it raised ("" if none)
    fb_ret               \* _fetch_batch: the list it returned

validate_vars == <<response_data, vr_pc, valid_persons, validated>>

fetch_vars ==
    <<quantity, num_batches, futures, waiter, finished, pending, all_persons,
      valid_persons_count, fetch_calls, completed, early_count>>

main_vars == <<anonymized_persons, db, report, error>>

age_vars == <<birthday, now, age_pc, age_ret>>

report_vars ==
    <<number_of_countries, report_pc, gmail_users_germany_pct, top_gmail_countries,
      gmail_over_60>>

tx_vars == <<session, tx_pc, tx_exc, db_before, tx_added, tx_count>>

fb_vars == <<fb_pc, retries_total, attempts, responses, fb_exc, fb_ret>>

\* the variables of the functions that are also run on their own
pure_vars == <<age_vars, report_vars, tx_vars, fb_vars>>

vars == <<validate_vars, pc, fetch_vars, main_vars, pure_vars>>

----------------------------------------------------------------------------
(* JSON values as delivered by response.json()                             *)

JNull == [t |-> "null"]
JNum(n) == [t |-> "num", n |-> n]
JStr(s) == [t |-> "str", s |-> s]
JList(l) == [t |-> "list", l |-> l]
JObj(o) == [t |-> "obj", o |-> o]

\* Python's None as returned by _validate_person / calculate_age_group
NoneVal == [t |-> "None"]

\* a float that is the quotient num / den (den > 0), kept exact
Fraction(num, den) == [t |-> "float", num |-> num, den |-> den]

\* an exception leaving a function
Raise(e) == [t |-> "raise", exc |-> e]

\* main has not failed
NoError == [where |-> "", exc |-> ""]

\* main ended by exception e, raised in function w
Failed(w, e) == [where |-> w, exc |-> e]

IsRaise(v) == "exc" \in DOMAIN v

----------------------------------------------------------------------------
(* datetime.strptime(s, "%Y-%m-%d")                                        *)

Digits == {"0", "1", "2", "3", "4", "5", "6", "7", "8", "9"}

Ch(s, i) == SubSeq(s, i, i)

DigitVal(c) ==
    CASE c = "0" -> 0 [] c = "1" -> 1 [] c = "2" -> 2 [] c = "3" -> 3
      [] c = "4" -> 4 [] c = "5" -> 5 [] c = "6" -> 6 [] c = "7" -> 7
      [] c = "8" -> 8 [] c = "9" -> 9 [] c = " " -> 0

RECURSIVE ToInt(_)
\* int() of a string of digits (a leading blank is stripped)
ToInt(s) ==
    IF Len(s) = 0 THEN 0
    ELSE 10 * ToInt(SubSeq(s, 1, Len(s) - 1)) + DigitVal(Ch(s, Len(s)))

\* %Y : \d\d\d\d
YearMatch(s) == Len(s) = 4 /\ \A i \in 1..4 : Ch(s, i) \in Digits

\* %m : 1[0-2]|0[1-9]|[1-9]
MonthMatch(s) ==
    \/ Len(s) = 2 /\ Ch(s, 1) = "1" /\ Ch(s, 2) \in {"0", "1", "2"}
    \/ Len(s) = 2 /\ Ch(s, 1) = "0" /\ Ch(s, 2) \in Digits \ {"0"}
    \/ Len(s) = 1 /\ Ch(s, 1) \in Digits \ {"0"}

\* %d : 3[01]|[12]\d|0[1-9]|[1-9]| [1-9]
DayMatch(s) ==
    \/ Len(s) = 2 /\ Ch(s, 1) = "3" /\ Ch(s, 2) \in {"0", "1"}
    \/ Len(s) = 2 /\ Ch(s, 1) \in {"1", "2"} /\ Ch(s, 2) \in Digits
    \/ Len(s) = 2 /\ Ch(s, 1) = "0" /\ Ch(s, 2) \in Digits \ {"0"}
    \/ Len(s) = 1 /\ Ch(s, 1) \in Digits \ {"0"}
    \/ Len(s) = 2 /\ Ch(s, 1) = " " /\ Ch(s, 2) \in Digits \ {"0"}

IsLeap(y) == (y % 4 = 0 /\ y % 100 # 0) \/ y % 400 = 0

DaysInMonth(y, m) ==
    IF m = 2 THEN (IF IsLeap(y) THEN 29 ELSE 28)
    ELSE IF m \in {4, 6, 9, 11} THEN 30 ELSE 31

\* the position of the "-" that ends the month, 0 when the text cannot match
MonthEnd(s) ==
    IF Len(s) >= 7 /\ Ch(s, 7) = "-" THEN 7
    ELSE IF Len(s) >= 8 /\ Ch(s, 8) = "-" THEN 8
    ELSE 0

\* the regular expression of the format matches the whole text
FormatMatch(s) ==
    /\ Len(s) >= 8
    /\ YearMatch(SubSeq(s, 1, 4))
    /\ Ch(s, 5) = "-"
    /\ MonthEnd(s) # 0
    /\ MonthMatch(SubSeq(s, 6, MonthEnd(s) - 1))
    /\ DayMatch(SubSeq(s, MonthEnd(s) + 1, Len(s)))

\* ValueError, or the date (year, month, day) the text denotes
strptime(s) ==
    IF ~FormatMatch(s) THEN Raise("ValueError")
    ELSE LET y == ToInt(SubSeq(s, 1, 4))
             m == ToInt(SubSeq(s, 6, MonthEnd(s) - 1))
             d == ToInt(SubSeq(s, MonthEnd(s) + 1, Len(s)))
         IN  IF y < 1 \/ d > DaysInMonth(y, m) THEN Raise("ValueError")
             ELSE [t |-> "date", y |-> y, m |-> m, d |-> d]

----------------------------------------------------------------------------
(* Address, Person and the record validator                                *)

\* the fields of the Address dataclass
AddressFields ==
    {"id", "street", "streetName", "buildingNumber", "city", "zipcode",
     "country", "country_code", "latitude", "longitude"}

\* the fields of the Person dataclass
PersonFields ==
    {"id", "firstname", "lastname", "email", "phone", "birthday", "gender",
     "address", "website", "image"}

\* Address(**kwargs): the generated __init__ takes exactly the declared
\* fields by keyword and stores the arguments as given (annotations are
\* not enforced)
AddressInit(kwargs) ==
    IF kwargs.t # "obj" THEN Raise("TypeError")
    ELSE IF DOMAIN kwargs.o # AddressFields THEN Raise("TypeError")
    ELSE [k \in AddressFields |-> kwargs.o[k]]

\* Person(**kwargs) with an already constructed address
PersonInit(kwargs) ==
    IF DOMAIN kwargs # PersonFields THEN Raise("TypeError")
    ELSE [k \in PersonFields |-> kwargs[k]]

\* the body of the try block of _validate_person
ValidatePersonTry(data) ==
    IF data.t # "obj" THEN Raise("TypeError")
    ELSE IF "birthday" \notin DOMAIN data.o THEN Raise("KeyError")
    ELSE IF data.o["birthday"].t # "str" THEN Raise("TypeError")
    ELSE IF IsRaise(strptime(data.o["birthday"].s)) THEN Raise("ValueError")
    ELSE IF "address" \notin DOMAIN data.o THEN Raise("KeyError")
    ELSE LET address == AddressInit(data.o["address"])
         IN  IF IsRaise(address) THEN address
             ELSE PersonInit([k \in DOMAIN data.o |->
                                IF k = "address" THEN address ELSE data.o[k]])

\* an except clause that forgets TypeError
CaughtByValidatePerson_NoTypeError == {"KeyError", "ValueError"}

\* except (KeyError, TypeError, ValueError)
CaughtByValidatePerson == {"KeyError", "TypeError", "ValueError"}

_validate_person(data) ==
    LET r == ValidatePersonTry(data)
    IN  IF IsRaise(r) /\ r.exc \in CaughtByValidatePerson THEN NoneVal ELSE r

IsPerson(v) == DOMAIN v = PersonFields

----------------------------------------------------------------------------
(* validate_response                                                       *)

\* dict.get(key) of a JSON object: the value, or None when the key is absent
Get(obj, key) == IF key \in DOMAIN obj THEN obj[key] ELSE NoneVal

RECURSIVE ValidateEach_StopsAtInvalid(_, _, _)
\* a loop that ends at the first invalid element (break for continue)
ValidateEach_StopsAtInvalid(persons, i, acc) ==
    IF i > Len(persons) THEN acc
    ELSE LET person == _validate_person(persons[i])
             seen == Append(acc.seen, persons[i])
         IN  IF IsRaise(person)
             THEN [exc |-> person.exc, ret |-> <<>>, seen |-> seen]
             ELSE IF person # NoneVal
                  THEN ValidateEach_StopsAtInvalid(persons, i + 1,
                           [acc EXCEPT !.ret = Append(acc.ret, person), !.seen = seen])
                  ELSE [acc EXCEPT !.seen = seen]

RECURSIVE ValidateEach(_, _, _)
\* the for loop over persons: acc.ret is valid_persons, acc.seen the
\* elements handed to _validate_person so far, acc.exc the exception that
\* left the loop ("" when none did)
ValidateEach(persons, i, acc) ==
    IF i > Len(persons) THEN acc
    ELSE LET person == _validate_person(persons[i])
             seen == Append(acc.seen, persons[i])
         IN  IF IsRaise(person)
             THEN [exc |-> person.exc, ret |-> <<>>, seen |-> seen]
             ELSE IF person # NoneVal
                  THEN ValidateEach(persons, i + 1,
                           [acc EXCEPT !.ret = Append(acc.ret, person), !.seen = seen])
                  ELSE ValidateEach(persons, i + 1, [acc EXCEPT !.seen = seen])

\* validate_response without the test of the status
validate_response_IgnoresStatus(body) ==
    IF body.t # "obj" THEN [exc |-> "AttributeError", ret |-> <<>>, seen |-> <<>>]
    ELSE LET persons == IF "data" \in DOMAIN body.o THEN body.o["data"]
                        ELSE JList(<<>>)
         IN  IF persons.t # "list" THEN [exc |-> "", ret |-> <<>>, seen |-> <<>>]
             ELSE ValidateEach(persons.l, 1, [exc |-> "", ret |-> <<>>, seen |-> <<>>])

\* exc: the exception raised ("" when it returns); ret: the returned list;
\* seen: the elements that were handed to the record validator
validate_response(body) ==
    IF body.t # "obj" THEN [exc |-> "AttributeError", ret |-> <<>>, seen |-> <<>>]
    ELSE IF Get(body.o, "status") # JStr("OK")
         THEN [exc |-> "", ret |-> <<>>, seen |-> <<>>]
    ELSE LET persons == IF "data" \in DOMAIN body.o THEN body.o["data"]
                        ELSE JList(<<>>)
         IN  IF persons.t # "list" THEN [exc |-> "", ret |-> <<>>, seen |-> <<>>]
             ELSE ValidateEach(persons.l, 1, [exc |-> "", ret |-> <<>>, seen |-> <<>>])

----------------------------------------------------------------------------
(* Sample inputs: raw records as the API may deliver them                  *)

\* the longest data list an envelope of the validation runs carries
MaxData == 2

GoodAddress ==
    [id |-> JNum(1), street |-> JStr("123 Main St"), streetName |-> JStr("Main St"),
     buildingNumber |-> JStr("123"), city |-> JStr("Berlin"),
     zipcode |-> JStr("12345"), country |-> JStr("Germany"),
     country_code |-> JStr("DE"), latitude |-> JNum(42), longitude |-> JNum(-71)]

GoodPerson ==
    [id |-> JNum(1), firstname |-> JStr("John"), lastname |-> JStr("Doe"),
     email |-> JStr("john@gmail.com"), phone |-> JStr("+1234567890"),
     birthday |-> JStr("1990-01-01"), gender |-> JStr("male"),
     address |-> JObj(GoodAddress), website |-> JStr("http://example.com"),
     image |-> JStr("http://example.com/image.jpg")]

\* r with field k set to v (a new key is added)
With(r, k, v) == [x \in DOMAIN r \cup {k} |-> IF x = k THEN v ELSE r[x]]

\* r without field k
Without(r, k) == [x \in DOMAIN r \ {k} |-> r[x]]

WithAddress(r, k, v) == With(r, "address", JObj(With(r["address"].o, k, v)))

WithoutAddress(r, k) == With(r, "address", JObj(Without(r["address"].o, k)))

\* same birthday, email, country and city as GoodPerson, all else differs
GoodPersonTwin ==
    [id |-> JNum(7), firstname |-> JStr("Max"), lastname |-> JStr("Roe"),
     email |-> JStr("john@gmail.com"), phone |-> JStr("+49"),
     birthday |-> JStr("1990-01-01"), gender |-> JStr("other"),
     address |-> JObj([GoodAddress EXCEPT !["id"] = JNum(9),
                           !["street"] = JStr("9 Oak St"),
                           !["zipcode"] = JStr("99999"),
                           !["latitude"] = JNum(1)]),
     website |-> JStr("http://max.example"), image |-> JStr("http://max.example/i.jpg")]

JanePerson ==
    [id |-> JNum(2), firstname |-> JStr("Jane"), lastname |-> JStr("Doe"),
     email |-> JStr("jane@example.com"), phone |-> JStr("+1234567891"),
     birthday |-> JStr("1961-2-9"), gender |-> JStr("female"),
     address |-> JObj([GoodAddress EXCEPT !["city"] = JStr("Ottawa"),
                           !["country"] = JStr("Canada"),
                           !["country_code"] = JStr("CA")]),
     website |-> JStr("http://example2.com"), image |-> JStr("http://example.com/image2.jpg")]

\* records with exactly the required fields and a birthday that parses
WellFormedSamples ==
    {JObj(GoodPerson), JObj(GoodPersonTwin), JObj(JanePerson),
     JObj(With(GoodPerson, "birthday", JStr("2024-02-29")))}

\* a required Person or Address field is missing
MissingFieldSamples ==
    {JObj(Without(GoodPerson, "lastname")), JObj(Without(GoodPerson, "birthday")),
     JObj(Without(GoodPerson, "address")), JObj(WithoutAddress(GoodPerson, "city")),
     JObj(WithoutAddress(JanePerson, "latitude")),
     JObj(<<>>)}

\* the birthday does not parse with %Y-%m-%d, or is not text
BadBirthdaySamples ==
    {JObj(With(GoodPerson, "birthday", JStr("01-01-1990"))),
     JObj(With(GoodPerson, "birthday", JStr("1990-02-30"))),
     JObj(With(JanePerson, "birthday", JStr("1990-13-01"))),
     JObj(With(GoodPerson, "birthday", JNull)),
     JObj(With(GoodPerson, "birthday", JNum(19900101)))}

\* every Address field present, latitude or longitude not a number
BadCoordinateSamples ==
    {JObj(WithAddress(GoodPerson, "latitude", JStr("not-a-number"))),
     JObj(WithAddress(JanePerson, "longitude", JNull))}

\* a well-formed record with one additional key
ExtraFieldSamples ==
    {JObj(With(GoodPerson, "nickname", JStr("Johnny"))),
     JObj(WithAddress(JanePerson, "county", JStr("Carleton")))}

\* an element that is not a mapping, or whose address is not a mapping
MisshapenSamples ==
    {JNull, JNum(5), JStr("birthday"), JList(<<JObj(GoodPerson)>>),
     JObj(With(GoodPerson, "address", JNull)),
     JObj(With(GoodPerson, "address", JStr("123 Main St"))),
     JObj(With(JanePerson, "address", JList(<<JNum(1)>>)))}

RawSamples ==
    WellFormedSamples \cup MissingFieldSamples \cup BadBirthdaySamples
        \cup BadCoordinateSamples \cup ExtraFieldSamples \cup MisshapenSamples

\* all lists over S of length 0..n
SeqsUpTo(S, n) == UNION {[1..k -> S] : k \in 0..n}

\* the envelopes validate_response is run on
Envelopes ==
    LET Statuses == {<<"status", JStr("OK")>>, <<"status", JStr("ERROR")>>,
                     <<"status", JNull>>, <<"code", JNum(200)>>}
        Datas == {<<"data", JList(l)>> : l \in SeqsUpTo(RawSamples, MaxData)}
                   \cup {<<"data", JStr("not a list")>>, <<"data", JNull>>,
                         <<"data", JObj(GoodPerson)>>, <<"total", JNum(0)>>}
    IN  {JObj([k \in {s[1], d[1]} |-> IF k = s[1] THEN s[2] ELSE d[2]]) :
            s \in Statuses, d \in Datas}

----------------------------------------------------------------------------
(* Runs of validate_response on its own                                    *)

\* the report functions are not being run on their own
ReportIdle ==
    /\ number_of_countries = 0
    /\ report_pc = "idle"
    /\ gmail_users_germany_pct = Fraction(0, 1)
    /\ top_gmail_countries = <<>>
    /\ gmail_over_60 = 0

\* a session: whether it holds a connection, and the rows added to it that
\* are not committed
Session(is_open, new) == [open |-> is_open, new |-> new]

\* no transaction is being run on its own
TxIdle ==
    /\ session = Session(FALSE, <<>>)
    /\ tx_pc = "idle"
    /\ tx_exc = ""
    /\ db_before = <<>>
    /\ tx_added = <<>>
    /\ tx_count = 0

\* _fetch_batch is not being run on its own
FetchBatchIdle ==
    /\ fb_pc = "idle"
    /\ retries_total = 0
    /\ attempts = 0
    /\ responses = <<>>
    /\ fb_exc = ""
    /\ fb_ret = <<>>

\* calculate_age_group is not being run on its own
AgeIdle ==
    /\ birthday = JNull
    /\ now = NoneVal
    /\ age_pc = "idle"
    /\ age_ret = NoneVal

\* the main thread while main is not running
MainIdle ==
    /\ quantity = 0
    /\ num_batches = 0
    /\ futures = <<>>
    /\ waiter = <<>>
    /\ finished = <<>>
    /\ pending = {}
    /\ all_persons = <<>>
    /\ valid_persons_count = 0
    /\ fetch_calls = <<>>
    /\ completed = <<>>
    /\ early_count = 0
    /\ anonymized_persons = <<>>
    /\ report = NoneVal
    /\ error = NoError

\* the main thread and the store while main is not running
Idle ==
    /\ MainIdle
    /\ db = <<>>

InitValidate ==
    /\ pc = "idle"
    /\ Idle
    /\ AgeIdle
    /\ ReportIdle
    /\ TxIdle
    /\ FetchBatchIdle
    /\ response_data \in Envelopes
    /\ vr_pc = "call"
    /\ valid_persons = <<>>
    /\ validated = <<>>

\* one call validate_response(response_data)
ValidateResponse ==
    /\ vr_pc = "call"
    /\ LET r == validate_response(response_data)
       IN  /\ vr_pc' = IF r.exc # "" THEN "raised" ELSE "returned"
           /\ valid_persons' = r.ret
           /\ validated' = r.seen
    /\ UNCHANGED <<response_data, pc, fetch_vars, main_vars, pure_vars>>

NextValidate == ValidateResponse

SpecValidate == InitValidate /\ [][NextValidate]_vars

----------------------------------------------------------------------------
(* data_anonymization.py                                                   *)

DigitChar(d) == SubSeq("0123456789", d + 1, d + 1)

RECURSIVE ToStr(_)
\* str() of a natural number
ToStr(n) == IF n < 10 THEN DigitChar(n) ELSE ToStr(n \div 10) \o DigitChar(n % 10)

\* a comparison that also holds for equal dates (>= for >)
DateAfter_OrEqual(a, b) ==
    \/ a.y > b.y
    \/ a.y = b.y /\ a.m > b.m
    \/ a.y = b.y /\ a.m = b.m /\ a.d >= b.d

\* date a is later than date b
DateAfter(a, b) ==
    \/ a.y > b.y
    \/ a.y = b.y /\ a.m > b.m
    \/ a.y = b.y /\ a.m = b.m /\ a.d > b.d

\* an age that is the difference of the years only
calculate_age_group_YearsOnly(bday, today) ==
    IF bday.t # "str" THEN Raise("TypeError")
    ELSE LET birth_date == strptime(bday.s)
         IN  IF IsRaise(birth_date) THEN NoneVal
             ELSE IF DateAfter(birth_date, today) THEN Raise("ValueError")
             ELSE LET age == today.y - birth_date.y
                      lower_bound == (age \div 10) * 10
                      upper_bound == lower_bound + 10
                  IN  JStr("[" \o ToStr(lower_bound) \o "-" \o ToStr(upper_bound) \o "]")

\* bday: the value of Person.birthday; today: the date of datetime.now()
calculate_age_group(bday, today) ==
    IF bday.t # "str" THEN Raise("TypeError")
    ELSE LET birth_date == strptime(bday.s)
         IN  IF IsRaise(birth_date) THEN NoneVal
             ELSE IF DateAfter(birth_date, today) THEN Raise("ValueError")
             ELSE LET before == \/ today.m < birth_date.m
                                \/ today.m = birth_date.m /\ today.d < birth_date.d
                      age == today.y - birth_date.y - (IF before THEN 1 ELSE 0)
                      lower_bound == (age \div 10) * 10
                      upper_bound == lower_bound + 10
                  IN  JStr("[" \o ToStr(lower_bound) \o "-" \o ToStr(upper_bound) \o "]")

\* the positions of character c in text s
Positions(s, c) == {i \in 1..Len(s) : Ch(s, i) = c}

\* a dot-atom: not empty, no leading, trailing or doubled dot
DotAtom(s) ==
    /\ Len(s) > 0
    /\ Ch(s, 1) # "." /\ Ch(s, Len(s)) # "."
    /\ \A i \in 1..(Len(s) - 1) : ~(Ch(s, i) = "." /\ Ch(s, i + 1) = ".")

\* validate_email(email, check_deliverability=False).domain of the
\* email_validator package, for ASCII lower-case addresses: the text after
\* the single "@", or EmailNotValidError
validate_email(s) ==
    LET ats == Positions(s, "@")
    IN  IF Cardinality(ats) # 1 THEN Raise("EmailNotValidError")
        ELSE LET at == CHOOSE i \in ats : TRUE
                 local == SubSeq(s, 1, at - 1)
                 domain == SubSeq(s, at + 1, Len(s))
             IN  IF /\ DotAtom(local)
                    /\ DotAtom(domain)
                    /\ Positions(domain, ".") # {}
                    /\ Positions(domain, "[") = {}
                 THEN JStr(domain)
                 ELSE Raise("EmailNotValidError")

\* email: the value of Person.email
extract_email_domain(email) ==
    IF email.t = "null" THEN NoneVal
    ELSE IF email.t # "str" THEN Raise("TypeError")
    ELSE LET email_info == validate_email(email.s)
         IN  IF IsRaise(email_info) THEN NoneVal ELSE email_info

\* an anonymizer that keeps the name in the place of the city
anonymize_person_KeepsName(person, today) ==
    LET age_group == calculate_age_group(person["birthday"], today)
        email_domain == extract_email_domain(person["email"])
    IN  IF IsRaise(age_group) THEN age_group
        ELSE IF IsRaise(email_domain) THEN email_domain
        ELSE [id |-> NoneVal,
              age_group |-> age_group,
              email_domain |-> email_domain,
              country |-> person["address"]["country"],
              city |-> person["firstname"]]

\* the AnonymizedPerson built from a Person (its primary key id is not
\* set until the row is inserted), or the exception a helper raised
anonymize_person(person, today) ==
    LET age_group == calculate_age_group(person["birthday"], today)
        email_domain == extract_email_domain(person["email"])
    IN  IF IsRaise(age_group) THEN age_group
        ELSE IF IsRaise(email_domain) THEN email_domain
        ELSE [id |-> NoneVal,
              age_group |-> age_group,
              email_domain |-> email_domain,
              country |-> person["address"]["country"],
              city |-> person["address"]["city"]]

----------------------------------------------------------------------------
(* generate_report.py: the statistics over the stored rows                 *)

\* all orders in which the elements of set S can be listed
Orderings(S) ==
    {o \in [1..Cardinality(S) -> S] : \A a, b \in 1..Cardinality(S) : a # b => o[a] # o[b]}

\* AnonymizedPerson.country == "Germany"
IsGermany(row) == row.country = JStr("Germany")

\* AnonymizedPerson.email_domain == "gmail.com"
IsGmail(row) == row.email_domain = JStr("gmail.com")

IsGermanyGmail(row) == IsGermany(row) /\ IsGmail(row)

\* a division that is not guarded against a zero divisor
calculate_gmail_users_germany_percentage_Unguarded(rows) ==
    LET total_users_germany == Len(SelectSeq(rows, IsGermany))
        gmail_users_germany == Len(SelectSeq(rows, IsGermanyGmail))
    IN  IF total_users_germany = 0 THEN Raise("ZeroDivisionError")
        ELSE Fraction(gmail_users_germany * 100, total_users_germany)

\* rows: the rows of the table
calculate_gmail_users_germany_percentage(rows) ==
    LET total_users_germany == Len(SelectSeq(rows, IsGermany))
        gmail_users_germany == Len(SelectSeq(rows, IsGermanyGmail))
    IN  IF total_users_germany = 0 THEN Fraction(0, 1)
        ELSE Fraction(gmail_users_germany * 100, total_users_germany)

\* func.count(AnonymizedPerson.id) of the group of country c among the
\* gmail.com rows
GroupCount(rows, c) ==
    LET InGroup(row) == IsGmail(row) /\ row.country = c
    IN  Len(SelectSeq(rows, InGroup))

\* the groups of .filter(email_domain == "gmail.com").group_by(country)
GroupBy(rows) == {rows[k].country : k \in {j \in 1..Len(rows) : IsGmail(rows[j])}}

\* the lists .order_by(count.desc()).all() may return: (country, count)
\* by falling count, groups of equal count in any order
CountryCounts(rows) ==
    {[k \in 1..Len(o) |-> <<o[k], GroupCount(rows, o[k])>>] :
        o \in {p \in Orderings(GroupBy(rows)) :
                  \A a, b \in 1..Len(p) :
                      a < b => GroupCount(rows, p[a]) >= GroupCount(rows, p[b])}}

\* x placed behind the elements of l whose count is not smaller
InsertByCount(x, l) ==
    LET AtLeast(y) == y[2] >= x[2]
        ahead == Len(SelectSeq(l, AtLeast))
    IN  SubSeq(l, 1, ahead) \o <<x>> \o SubSeq(l, ahead + 1, Len(l))

RECURSIVE sorted(_)
\* sorted(l, key=lambda x: x[1], reverse=True): by falling count, elements
\* of equal count in their order in l
sorted(l) ==
    IF l = <<>> THEN <<>>
    ELSE InsertByCount(l[Len(l)], sorted(SubSeq(l, 1, Len(l) - 1)))

\* the first n countries only
get_top_gmail_countries_CutAtN(country_counts, n) ==
    LET sorted_country_counts == sorted(country_counts)
    IN  IF Len(sorted_country_counts) <= n THEN sorted_country_counts
        ELSE SubSeq(sorted_country_counts, 1, n)

\* country_counts: the result of the query; n: number_of_countries >= 1
get_top_gmail_countries(country_counts, n) ==
    IF country_counts = <<>> THEN <<>>
    ELSE LET sorted_country_counts == sorted(country_counts)
         IN  IF Len(sorted_country_counts) <= n THEN sorted_country_counts
             ELSE LET cutoff_count == sorted_country_counts[n][2]
                      Tied(x) == x[2] >= cutoff_count
                  IN  SelectSeq(sorted_country_counts, Tied)

\* the brackets listed in the filter of count_gmail_users_over_60
Over60Brackets == {JStr("[60-70]"), JStr("[70-80]"), JStr("[80-90]"), JStr("[90-100]")}

count_gmail_users_over_60(rows) ==
    LET Over60(row) == IsGmail(row) /\ row.age_group \in Over60Brackets
    IN  Len(SelectSeq(rows, Over60))

\* the number_of_countries generate_report leaves at its default
DefaultNumberOfCountries == 3

\* the reports generate_report may print for the rows of the table
Reports(rows) ==
    {[gmail_users_germany_pct |-> calculate_gmail_users_germany_percentage(rows),
      top_gmail_countries |-> get_top_gmail_countries(cc, DefaultNumberOfCountries),
      gmail_over_60 |-> count_gmail_users_over_60(rows)] : cc \in CountryCounts(rows)}

----------------------------------------------------------------------------
(* fetch_persons: the orchestrator and its worker pool                     *)

MAX_API_QUANTITY == 1000

MAX_WORKERS == 10

\* the largest quantity of the runs that only partition a quantity
MaxQuantity == 3500

\* the quantities requested in the runs of the whole pipeline (the literal
\* 30000 of main stands for any of them): one batch, a full batch, a
\* remainder of one, two full batches
Quantities == {1, 1000, 1001, 2000}

\* the quantities requested in the runs of fetch_persons alone: those, and
\* one of three batches
FetchQuantities == Quantities \cup {2500}

\* the dates datetime.now() may return: today, a date before one of the
\* sample birthdays, and a fortieth birthday of the sample persons
Todays ==
    {[t |-> "date", y |-> 2026, m |-> 10, d |-> 28],
     [t |-> "date", y |-> 2024, m |-> 1, d |-> 15],
     [t |-> "date", y |-> 2030, m |-> 1, d |-> 1]}

\* the rows the database file may hold from an earlier run
InitialStores ==
    {<<>>,
     <<[id |-> JNum(1), age_group |-> JStr("[60-70]"),
        email_domain |-> JStr("gmail.com"), country |-> JStr("Germany"),
        city |-> JStr("Bonn")]>>}

Envelope(status, data) == JObj([status |-> JStr(status), data |-> JList(data)])

\* the ways one GET may end: no usable response (a RequestException from
\* session.get, raise_for_status or response.json), or a JSON body
HttpResponses ==
    {[kind |-> "error"],
     [kind |-> "json", body |-> Envelope("OK", <<JObj(GoodPerson), JObj(GoodPersonTwin)>>)],
     [kind |-> "json", body |-> Envelope("OK", <<JObj(Without(GoodPerson, "lastname")),
                                                JObj(JanePerson)>>)],
     [kind |-> "json", body |-> Envelope("OK",
                <<JObj(With(GoodPerson, "birthday", JStr("2024-02-29")))>>)],
     [kind |-> "json", body |-> Envelope("ERROR", <<JObj(GoodPerson)>>)],
     [kind |-> "json", body |-> JList(<<JObj(GoodPerson)>>)]}

\* _fetch_batch given the response of its GET: exc is the exception it
\* raises ("" when it returns), ret the list it returns
_fetch_batch(response) ==
    IF response.kind = "error" THEN [exc |-> "RequestException", ret |-> <<>>]
    ELSE LET r == validate_response(response.body)
         IN  [exc |-> r.exc, ret |-> r.ret]

\* the classes a future may raise; all derive from Exception
ExceptionClasses ==
    {"RequestException", "AttributeError", "KeyError", "TypeError", "ValueError"}

\* a loop that only expects validation errors
CaughtByFetchPersons_Narrow == {"KeyError", "TypeError", "ValueError"}

\* except Exception, in the loop over as_completed
CaughtByFetchPersons == ExceptionClasses

\* assignment in place of extend
Extend_Replace(list, items) == items

\* list.extend(items)
Extend(list, items) == list \o items

\* a batch that is always full: min() forgotten
BatchSize_AlwaysFull(q, i) == MAX_API_QUANTITY

\* batch_size of batch i (counted from 0)
BatchSize(q, i) ==
    LET rest == q - (i * MAX_API_QUANTITY)
    IN  IF MAX_API_QUANTITY < rest THEN MAX_API_QUANTITY ELSE rest

NumBatches(q) == (q + MAX_API_QUANTITY - 1) \div MAX_API_QUANTITY

\* the futures in state st
InState(st) == {f \in 1..Len(futures) : futures[f].state = st}

\* the elements of a list, as a set
Range(l) == {l[k] : k \in 1..Len(l)}

\* main: create the database, then call fetch_persons
MainStart ==
    /\ pc = "main"
    /\ pc' = "fetch_persons"
    /\ UNCHANGED <<pure_vars, validate_vars, fetch_vars, main_vars>>

\* fetch_persons up to the creation of the executor
FetchPersonsEnter ==
    /\ pc = "fetch_persons"
    /\ all_persons' = <<>>
    /\ valid_persons_count' = 0
    /\ num_batches' = NumBatches(quantity)
    /\ pc' = "submit"
    /\ UNCHANGED <<pure_vars, validate_vars, quantity, fetch_calls, completed, early_count, futures, waiter, finished, pending, main_vars>>

\* a loop that submits a batch only when the batch before it has ended
Submit_AfterPrevious ==
    /\ pc = "submit"
    /\ Len(futures) < num_batches
    /\ futures # <<>> => futures[Len(futures)].state = "FINISHED"
    /\ LET i == Len(futures)
       IN  futures' = Append(futures,
                [batch_num |-> i + 1, batch_size |-> BatchSize(quantity, i),
                 state |-> "PENDING", exc |-> "", result |-> <<>>])
    /\ UNCHANGED <<pure_vars, validate_vars, pc, quantity, fetch_calls, completed, early_count,
                   num_batches, waiter, finished, pending, all_persons, valid_persons_count,
                   main_vars>>

\* one iteration of the for loop: executor.submit
Submit ==
    /\ pc = "submit"
    /\ Len(futures) < num_batches
    /\ LET i == Len(futures)
       IN  futures' = Append(futures,
                [batch_num |-> i + 1, batch_size |-> BatchSize(quantity, i),
                 state |-> "PENDING", exc |-> "", result |-> <<>>])
    /\ UNCHANGED <<pure_vars, validate_vars, pc, quantity, fetch_calls, completed, early_count, num_batches, waiter, finished, pending,
                   all_persons, valid_persons_count, main_vars>>

\* a pool that starts a thread for every work item
StartBatchWith_Unbounded(logged) ==
    /\ \E f \in InState("PENDING") :
           /\ futures' = [futures EXCEPT ![f].state = "RUNNING"]
           /\ fetch_calls' = IF logged THEN Append(fetch_calls, futures[f].batch_num)
                                       ELSE fetch_calls
    /\ UNCHANGED <<pure_vars, validate_vars, pc, quantity, num_batches, waiter, finished, pending,
                   all_persons, valid_persons_count, completed, early_count, main_vars>>

\* the work items a worker has taken from the queue before it takes f, or
\* f itself, and has not begun to run: the queue is first in, first out
TakenUpTo(f) == {g \in InState("PENDING") : g <= f}

\* a worker thread that has taken work item f from the queue marks its
\* future RUNNING and calls _fetch_batch. The workers take the items in
\* the order of submission, but one that took a later item may get here
\* before one that took an earlier item; every item taken and every fetch
\* that runs occupies one of the MAX_WORKERS threads. The call is recorded
\* in fetch_calls when logged is TRUE
StartBatchWith(logged) ==
    /\ \E f \in InState("PENDING") :
           /\ Cardinality(InState("RUNNING")) + Cardinality(TakenUpTo(f)) <= MAX_WORKERS
           /\ futures' = [futures EXCEPT ![f].state = "RUNNING"]
           /\ fetch_calls' = IF logged THEN Append(fetch_calls, futures[f].batch_num)
                                       ELSE fetch_calls
    /\ UNCHANGED <<pure_vars, validate_vars, pc, quantity, num_batches, waiter, finished, pending,
                   all_persons, valid_persons_count, completed, early_count, main_vars>>

\* a worker begins the fetch of a batch
StartBatch == StartBatchWith(TRUE)

\* a worker ends _fetch_batch: the future gets its result or exception and
\* an installed waiter is told; the order of the ends is recorded in
\* completed when logged is TRUE
FinishBatchWith(Responses, logged) ==
    \E f \in InState("RUNNING"), response \in Responses :
        LET r == _fetch_batch(response)
        IN  /\ futures' = [futures EXCEPT ![f].state = "FINISHED",
                                          ![f].exc = r.exc,
                                          ![f].result = r.ret]
            /\ waiter' = IF pc = "collect" THEN Append(waiter, f) ELSE waiter
            /\ completed' = IF logged THEN Append(completed, f) ELSE completed
            /\ UNCHANGED <<pure_vars, validate_vars, pc, quantity, fetch_calls, early_count, num_batches, finished, pending,
                           all_persons, valid_persons_count, main_vars>>

\* a worker ends _fetch_batch, with any of the responses
FinishBatch == FinishBatchWith(HttpResponses, TRUE)

\* as_completed up to its first yield: the futures already finished are
\* taken from a set, in no particular order, and the waiter is installed
AsCompleted ==
    /\ pc = "submit"
    /\ Len(futures) = num_batches
    /\ finished' \in Orderings(InState("FINISHED"))
    /\ pending' = (1..Len(futures)) \ InState("FINISHED")
    /\ waiter' = <<>>
    /\ early_count' = Len(completed)
    /\ pc' = "collect"
    /\ UNCHANGED <<pure_vars, validate_vars, quantity, fetch_calls, completed, num_batches, futures, all_persons,
                   valid_persons_count, main_vars>>

\* a loop body that submits a failed batch again
Collect_Resubmits ==
    /\ pc = "collect"
    /\ finished # <<>>
    /\ LET f == Head(finished)
           future == futures[f]
       IN  IF future.exc = ""
           THEN /\ all_persons' = Extend(all_persons, future.result)
                /\ valid_persons_count' = valid_persons_count + Len(future.result)
                /\ UNCHANGED <<futures, pending>>
           ELSE /\ futures' = [futures EXCEPT ![f].state = "PENDING", ![f].exc = ""]
                /\ pending' = pending \cup {f}
                /\ UNCHANGED <<all_persons, valid_persons_count>>
    /\ finished' = Tail(finished)
    /\ UNCHANGED <<pure_vars, validate_vars, pc, quantity, fetch_calls, completed, early_count, num_batches, waiter,
                   main_vars>>

\* the body of the for loop, for the next future as_completed yields
Collect ==
    /\ pc = "collect"
    /\ finished # <<>>
    /\ LET future == futures[Head(finished)]
       IN  IF future.exc = ""
           THEN /\ all_persons' = Extend(all_persons, future.result)
                /\ valid_persons_count' = valid_persons_count + Len(future.result)
                /\ UNCHANGED <<pc, error>>
           ELSE IF future.exc \in CaughtByFetchPersons
           THEN UNCHANGED <<all_persons, valid_persons_count, pc, error>>
           ELSE /\ pc' = "error"
                /\ error' = Failed("fetch_persons", future.exc)
                /\ UNCHANGED <<all_persons, valid_persons_count>>
    /\ finished' = Tail(finished)
    /\ UNCHANGED <<pure_vars, validate_vars, quantity, fetch_calls, completed, early_count, num_batches, futures, waiter, pending,
                   anonymized_persons, db, report>>

\* a wake-up that yields what the waiter has gathered last-first
WaitCompleted_LastFirst ==
    /\ pc = "collect"
    /\ finished = <<>>
    /\ pending # {}
    /\ waiter # <<>>
    /\ finished' = [k \in 1..Len(waiter) |-> waiter[Len(waiter) + 1 - k]]
    /\ waiter' = <<>>
    /\ pending' = pending \ Range(waiter)
    /\ UNCHANGED <<pure_vars, validate_vars, pc, quantity, fetch_calls, completed, early_count,
                   num_batches, futures, all_persons, valid_persons_count, main_vars>>

\* as_completed wakes up: it takes what the waiter has gathered, in the
\* order of completion
WaitCompleted ==
    /\ pc = "collect"
    /\ finished = <<>>
    /\ pending # {}
    /\ waiter # <<>>
    /\ finished' = waiter
    /\ waiter' = <<>>
    /\ pending' = pending \ Range(waiter)
    /\ UNCHANGED <<pure_vars, validate_vars, pc, quantity, fetch_calls, completed, early_count, num_batches, futures, all_persons,
                   valid_persons_count, main_vars>>

\* a return that does not wait for the futures still pending
ReturnPersons_Early ==
    /\ pc = "collect"
    /\ finished = <<>>
    /\ pc' = "check"
    /\ UNCHANGED <<pure_vars, validate_vars, fetch_vars, main_vars>>

\* the loop and the with block end; fetch_persons returns all_persons
ReturnPersons ==
    /\ pc = "collect"
    /\ finished = <<>>
    /\ pending = {}
    /\ pc' = "check"
    /\ UNCHANGED <<pure_vars, validate_vars, fetch_vars, main_vars>>

----------------------------------------------------------------------------
(* main after fetch_persons has returned                                   *)

\* main without the check for an empty result
CheckPersons_NoCheck ==
    /\ pc = "check"
    /\ pc' = "anonymize"
    /\ UNCHANGED <<pure_vars, validate_vars, fetch_vars, main_vars>>

\* if not persons: raise ValueError(...)
CheckPersons ==
    /\ pc = "check"
    /\ IF all_persons = <<>>
       THEN pc' = "error" /\ error' = Failed("main", "ValueError")
       ELSE pc' = "anonymize" /\ UNCHANGED error
    /\ UNCHANGED <<pure_vars, validate_vars, fetch_vars, anonymized_persons, db, report>>

\* the ways [anonymize_person(person) for person in persons] may end:
\* every call of anonymize_person reads the clock for itself, and the first
\* call that raises ends the comprehension; ret is the list, exc the
\* exception
RECURSIVE AnonymizeAll(_)
AnonymizeAll(persons) ==
    IF persons = <<>>
    THEN {[exc |-> "", ret |-> <<>>]}
    ELSE UNION {LET first == anonymize_person(Head(persons), today)
                IN  IF IsRaise(first)
                    THEN {[exc |-> first.exc, ret |-> <<>>]}
                    ELSE {IF rest.exc = ""
                          THEN [exc |-> "", ret |-> <<first>> \o rest.ret]
                          ELSE rest : rest \in AnonymizeAll(Tail(persons))}
                : today \in Todays}

\* [anonymize_person(person) for person in persons]; the first exception
\* ends the comprehension and main
Anonymize ==
    /\ pc = "anonymize"
    /\ \E r \in AnonymizeAll(all_persons) :
        IF r.exc = ""
        THEN /\ anonymized_persons' = r.ret
             /\ pc' = "write"
             /\ UNCHANGED error
        ELSE /\ error' = Failed("anonymize_person", r.exc)
             /\ pc' = "error"
             /\ UNCHANGED anonymized_persons
    /\ UNCHANGED <<pure_vars, validate_vars, fetch_vars, db, report>>

\* the rows a committed session.add_all(persons) adds: the primary key
\* continues after the last row
InsertAll(rows, persons) ==
    rows \o [k \in 1..Len(persons) |-> [persons[k] EXCEPT !.id = JNum(Len(rows) + k)]]

\* db.write_persons(anonymized_persons): the transaction commits
WritePersons ==
    /\ pc = "write"
    /\ db' = InsertAll(db, anonymized_persons)
    /\ pc' = "report"
    /\ UNCHANGED <<pure_vars, validate_vars, fetch_vars, anonymized_persons, report, error>>

\* a failing write that leaves the first row behind
WriteFails_KeepsFirst ==
    /\ pc = "write"
    /\ db' = InsertAll(db, SubSeq(anonymized_persons, 1, 1))
    /\ error' = Failed("write_persons", "SQLAlchemyError")
    /\ pc' = "error"
    /\ UNCHANGED <<pure_vars, validate_vars, fetch_vars, anonymized_persons, report>>

\* db.write_persons(anonymized_persons): the flush or commit raises; the
\* transaction is rolled back and the exception ends main
WriteFails ==
    /\ pc = "write"
    /\ db' = db
    /\ error' = Failed("write_persons", "SQLAlchemyError")
    /\ pc' = "error"
    /\ UNCHANGED <<pure_vars, validate_vars, fetch_vars, anonymized_persons, report>>

\* generate_report(DB_PATH): the statistics are computed over the rows read
GenerateReport ==
    /\ pc = "report"
    /\ report' \in Reports(db)
    /\ pc' = "done"
    /\ UNCHANGED <<pure_vars, validate_vars, fetch_vars, anonymized_persons, db, error>>

----------------------------------------------------------------------------
(* Specifications                                                          *)

ValidateIdle ==
    /\ response_data = JNull
    /\ vr_pc = "idle"
    /\ valid_persons = <<>>
    /\ validated = <<>>

\* a run of main, on a database file that is new or holds earlier rows
Init ==
    /\ ValidateIdle
    /\ AgeIdle
    /\ ReportIdle
    /\ TxIdle
    /\ FetchBatchIdle
    /\ pc = "main"
    /\ quantity \in Quantities
    /\ num_batches = 0
    /\ futures = <<>>
    /\ waiter = <<>>
    /\ finished = <<>>
    /\ pending = {}
    /\ all_persons = <<>>
    /\ valid_persons_count = 0
    /\ fetch_calls = <<>>
    /\ completed = <<>>
    /\ early_count = 0
    /\ anonymized_persons = <<>>
    /\ db \in InitialStores
    /\ report = NoneVal
    /\ error = NoError

Next ==
    \/ MainStart
    \/ FetchPersonsEnter
    \/ Submit
    \/ StartBatch
    \/ FinishBatch
    \/ AsCompleted
    \/ Collect
    \/ WaitCompleted
    \/ ReturnPersons
    \/ CheckPersons
    \/ Anonymize
    \/ WritePersons
    \/ WriteFails
    \/ GenerateReport

Spec == Init /\ [][Next]_vars

\* a call of fetch_persons, followed up to the end of its submission loop
InitSubmit ==
    /\ ValidateIdle
    /\ AgeIdle
    /\ ReportIdle
    /\ TxIdle
    /\ FetchBatchIdle
    /\ pc = "fetch_persons"
    /\ quantity \in 1..MaxQuantity
    /\ num_batches = 0
    /\ futures = <<>>
    /\ waiter = <<>>
    /\ finished = <<>>
    /\ pending = {}
    /\ all_persons = <<>>
    /\ valid_persons_count = 0
    /\ fetch_calls = <<>>
    /\ completed = <<>>
    /\ early_count = 0
    /\ anonymized_persons = <<>>
    /\ db = <<>>
    /\ report = NoneVal
    /\ error = NoError

NextSubmit == FetchPersonsEnter \/ Submit

SpecSubmit == InitSubmit /\ [][NextSubmit]_vars

\* the largest quantity of the runs that fill the worker pool
MaxPoolQuantity == 11001

\* quantities of more batches than there are workers: 11 and 12 batches
PoolQuantities == {MAX_WORKERS * MAX_API_QUANTITY + 1, MaxPoolQuantity}

\* what a GET is answered with in the runs that fill the worker pool
PoolResponses == {[kind |-> "error"]}

\* a call of fetch_persons with more batches than workers, followed while
\* the main thread submits and the workers run
InitPool ==
    /\ ValidateIdle
    /\ AgeIdle
    /\ ReportIdle
    /\ TxIdle
    /\ FetchBatchIdle
    /\ pc = "fetch_persons"
    /\ quantity \in PoolQuantities
    /\ num_batches = 0
    /\ futures = <<>>
    /\ waiter = <<>>
    /\ finished = <<>>
    /\ pending = {}
    /\ all_persons = <<>>
    /\ valid_persons_count = 0
    /\ fetch_calls = <<>>
    /\ completed = <<>>
    /\ early_count = 0
    /\ anonymized_persons = <<>>
    /\ db = <<>>
    /\ report = NoneVal
    /\ error = NoError

\* a worker of the filled pool begins the fetch of a batch; the order of
\* the calls, which no step of the pool depends on, is not recorded
StartPoolBatch == StartBatchWith(FALSE)

\* a worker of the filled pool ends _fetch_batch; the order of the ends,
\* which no step of the pool depends on, is not recorded
FinishPoolBatch == FinishBatchWith(PoolResponses, FALSE)

NextPool ==
    \/ FetchPersonsEnter
    \/ Submit
    \/ StartPoolBatch
    \/ FinishPoolBatch

SpecPool == InitPool /\ [][NextPool]_vars

\* what a GET is answered with in the runs of fetch_persons alone: no
\* usable response, two valid records, or an invalid and a valid record
FetchResponses ==
    {[kind |-> "error"],
     [kind |-> "json", body |-> Envelope("OK", <<JObj(GoodPerson), JObj(GoodPersonTwin)>>)],
     [kind |-> "json", body |-> Envelope("OK", <<JObj(Without(GoodPerson, "lastname")),
                                                JObj(JanePerson)>>)]}

\* a call of fetch_persons, followed until it returns
InitFetch ==
    /\ ValidateIdle
    /\ AgeIdle
    /\ ReportIdle
    /\ TxIdle
    /\ FetchBatchIdle
    /\ pc = "fetch_persons"
    /\ quantity \in FetchQuantities
    /\ num_batches = 0
    /\ futures = <<>>
    /\ waiter = <<>>
    /\ finished = <<>>
    /\ pending = {}
    /\ all_persons = <<>>
    /\ valid_persons_count = 0
    /\ fetch_calls = <<>>
    /\ completed = <<>>
    /\ early_count = 0
    /\ anonymized_persons = <<>>
    /\ db = <<>>
    /\ report = NoneVal
    /\ error = NoError

\* a worker ends _fetch_batch in a run of fetch_persons alone
FinishFetchBatch == FinishBatchWith(FetchResponses, TRUE)

\* the steps of the thread that called fetch_persons
FetchThread ==
    \/ FetchPersonsEnter
    \/ Submit
    \/ AsCompleted
    \/ Collect
    \/ WaitCompleted
    \/ ReturnPersons

NextFetch ==
    \/ FetchThread
    \/ StartBatch
    \/ FinishFetchBatch

\* the calling thread goes on while it can, a free worker takes a queued
\* batch, and every batch fetch ends
SpecFetch ==
    /\ InitFetch
    /\ [][NextFetch]_vars
    /\ WF_vars(FetchThread)
    /\ WF_vars(StartBatch)
    /\ WF_vars(FinishFetchBatch)

----------------------------------------------------------------------------
(* Properties of the submission loop                                       *)

\* the least n with n * b >= a
CeilDiv(a, b) == CHOOSE n \in 0..a : n * b >= a /\ (n - 1) * b < a

RECURSIVE SumSizes(_)
\* the sum of the batch sizes of a list of futures
SumSizes(fs) == IF fs = <<>> THEN 0 ELSE Head(fs).batch_size + SumSizes(Tail(fs))

\* C1: for every quantity >= 1 the submission loop submits ceil(quantity /
\* 1000) batches numbered 1..n in order; every batch but the last has size
\* 1000, the last has size quantity - 1000*(n-1), every size lies in
\* 1..1000 and the sizes sum to quantity.
C1_BatchPartition ==
    pc = "submit" =>
        /\ num_batches = CeilDiv(quantity, 1000)
        /\ Len(futures) <= num_batches
        /\ \A i \in 1..Len(futures) :
            /\ futures[i].batch_num = i
            /\ futures[i].batch_size \in 1..1000
            /\ i < num_batches => futures[i].batch_size = 1000
            /\ i = num_batches =>
                    futures[i].batch_size = quantity - 1000 * (num_batches - 1)
        /\ Len(futures) = num_batches => SumSizes(futures) = quantity

\* quantity 2500 has been submitted as 1000, 1000, 500
C1_Witness ==
    /\ pc = "submit"
    /\ quantity = 2500
    /\ Len(futures) = 3
    /\ <<futures[1].batch_size, futures[2].batch_size, futures[3].batch_size>>
            = <<1000, 1000, 500>>

----------------------------------------------------------------------------
(* Properties of the collection loop                                       *)

\* fetch_persons has returned to main
Returned == pc \in {"check", "anonymize", "write", "report", "done"} \/
            (pc = "error" /\ error.where # "fetch_persons")

\* how often r occurs in list l
Count(r, l) == Cardinality({k \in 1..Len(l) : l[k] = r})

RECURSIVE CountInResults(_, _)
\* how often r occurs in the results of the futures fs that did not raise
CountInResults(r, fs) ==
    IF fs = <<>> THEN 0
    ELSE (IF Head(fs).exc = "" THEN Count(r, Head(fs).result) ELSE 0)
            + CountInResults(r, Tail(fs))

\* every record some future returned
AllResults == UNION {Range(futures[f].result) : f \in 1..Len(futures)}

Succeeded == {f \in InState("FINISHED") : futures[f].exc = ""}

Failing == {f \in InState("FINISHED") : futures[f].exc # ""}

\* C2: whichever batches raise and in whatever order the batches complete,
\* fetch_persons does not raise, and what it returns holds every record of
\* every batch that succeeded.
C2_FailureIsolated ==
    /\ error.where # "fetch_persons"
    /\ Returned =>
        \A r \in AllResults : Count(r, all_persons) >= CountInResults(r, futures)

\* fetch_persons returned the records of a batch although another raised
C2_Witness ==
    /\ pc = "check"
    /\ Failing # {}
    /\ \E f \in Succeeded : futures[f].result # <<>> /\
            \A k \in 1..Len(futures[f].result) : Count(futures[f].result[k], all_persons) > 0

\* C3: what fetch_persons returns is, as a multiset, the union of the
\* results of the batches that succeeded: nothing duplicated, nothing from
\* a failed batch, nothing dropped; when every batch failed it is empty.
C3_ResultIsUnion ==
    Returned =>
        /\ \A r \in AllResults \cup Range(all_persons) :
                Count(r, all_persons) = CountInResults(r, futures)
        /\ valid_persons_count = Len(all_persons)
        /\ Succeeded = {} => all_persons = <<>>

\* three batches: two returned records, one raised
C3_Witness ==
    /\ pc = "check"
    /\ Cardinality(Failing) = 1
    /\ Cardinality({f \in Succeeded : futures[f].result # <<>>}) = 2
    /\ Len(all_persons) >= 3

----------------------------------------------------------------------------
(* Properties of main                                                      *)

\* C4: when fetch_persons has returned an empty list, main ends with a
\* ValueError; nothing is anonymized, written or reported, then or later,
\* and the store stays as it was.
C4_HaltOnEmpty ==
    [][/\ (pc = "check" /\ all_persons = <<>>) =>
            /\ pc' = "error"
            /\ error' = Failed("main", "ValueError")
            /\ anonymized_persons' = <<>>
            /\ db' = db
            /\ report' = NoneVal
       /\ pc = "error" => UNCHANGED vars]_vars

\* main has stopped on an empty result, the earlier rows untouched
C4_Witness ==
    /\ pc = "error"
    /\ error = Failed("main", "ValueError")
    /\ all_persons = <<>>
    /\ Succeeded # {}
    /\ Failing # {}
    /\ db # <<>>
    /\ report = NoneVal

AnonymizedFields == {"id", "age_group", "email_domain", "country", "city"}

\* two persons agree on birthday, email, country and city
SameFour(p, q) ==
    /\ p["birthday"] = q["birthday"]
    /\ p["email"] = q["email"]
    /\ p["address"]["country"] = q["address"]["country"]
    /\ p["address"]["city"] = q["address"]["city"]

\* an anonymized record without its primary key
NoKey(a) == [a EXCEPT !.id = NoneVal]

\* C5: an anonymized record has the columns age_group, email_domain,
\* country and city (and a primary key that is unset until the insert);
\* it is what anonymize_person makes of the person on the date of its
\* call; persons that agree on birthday, email, country and city get, on
\* the same date, identical anonymized records whatever their other
\* fields; and the rows main adds to the store are exactly these records.
C5_OnlyFourAttributes ==
    /\ \A k \in 1..Len(anonymized_persons) :
        /\ DOMAIN anonymized_persons[k] = AnonymizedFields
        /\ anonymized_persons[k].id = NoneVal
        /\ anonymized_persons[k].country = all_persons[k]["address"]["country"]
        /\ anonymized_persons[k].city = all_persons[k]["address"]["city"]
        /\ \E today \in Todays :
              anonymized_persons[k] = anonymize_person(all_persons[k], today)
    /\ \A j, k \in 1..Len(all_persons) :
        SameFour(all_persons[j], all_persons[k])
            => \A today \in Todays :
                  anonymize_person(all_persons[j], today)
                      = anonymize_person(all_persons[k], today)
    /\ pc \in {"report", "done"} =>
        \E old \in InitialStores :
            /\ Len(db) = Len(old) + Len(anonymized_persons)
            /\ SubSeq(db, 1, Len(old)) = old
            /\ \A k \in 1..Len(anonymized_persons) :
                NoKey(db[Len(old) + k]) = anonymized_persons[k]
    /\ pc \notin {"report", "done"} => db \in InitialStores

\* two persons that differ in name, id and street but agree on the four
\* attributes have been anonymized to the same record, and stored
C5_Witness ==
    /\ pc = "report"
    /\ \E j, k \in 1..Len(anonymized_persons) :
        /\ SameFour(all_persons[j], all_persons[k])
        /\ all_persons[j]["firstname"] # all_persons[k]["firstname"]
        /\ all_persons[j]["id"] # all_persons[k]["id"]
        /\ all_persons[j]["address"]["street"] # all_persons[k]["address"]["street"]
        /\ anonymized_persons[j] = anonymized_persons[k]
        /\ NoKey(db[Len(db) - Len(anonymized_persons) + j]) = anonymized_persons[j]

----------------------------------------------------------------------------
(* Properties of validate_response and the record validator                *)

\* validate_response has ended
Validated == vr_pc \in {"returned", "raised"}

StatusOK == Get(response_data.o, "status") = JStr("OK")

\* the envelope has a data field and it is not a list
DataNotList == "data" \in DOMAIN response_data.o /\ response_data.o["data"].t # "list"

\* the envelope has status "OK" and a list in data
GoodEnvelope ==
    /\ StatusOK
    /\ "data" \in DOMAIN response_data.o
    /\ response_data.o["data"].t = "list"

\* the list in data
Data == response_data.o["data"].l

\* element e has every required Person and Address field
HasRequiredFields(e) ==
    /\ e.t = "obj"
    /\ PersonFields \subseteq DOMAIN e.o
    /\ e.o["address"].t = "obj"
    /\ AddressFields \subseteq DOMAIN e.o["address"].o

\* the birthday of element e is text that denotes a date
BirthdayParses(e) ==
    /\ e.t = "obj"
    /\ "birthday" \in DOMAIN e.o
    /\ e.o["birthday"].t = "str"
    /\ ~IsRaise(strptime(e.o["birthday"].s))

RECURSIVE AcceptedOf(_)
\* the Persons of the elements of l the record validator accepts, in order
AcceptedOf(l) ==
    IF l = <<>> THEN <<>>
    ELSE (IF IsPerson(_validate_person(Head(l))) THEN <<_validate_person(Head(l))>>
          ELSE <<>>) \o AcceptedOf(Tail(l))

\* C6: for an envelope with status "OK" and a list in data,
\* validate_response returns the elements the record validator accepts, in
\* their order: an element that lacks a required Person or Address field
\* or whose birthday does not parse is left out, every well-formed sibling
\* is kept.
C6_KeepsAcceptedInOrder ==
    (Validated /\ GoodEnvelope) =>
        /\ vr_pc = "returned"
        /\ valid_persons = AcceptedOf(Data)
        /\ \A i \in 1..Len(Data) :
            /\ (~HasRequiredFields(Data[i]) \/ ~BirthdayParses(Data[i]))
                    => ~IsPerson(_validate_person(Data[i]))
            /\ Data[i] \in WellFormedSamples
                    => /\ IsPerson(_validate_person(Data[i]))
                       /\ _validate_person(Data[i]) \in Range(valid_persons)

\* an element without lastname was left out, its sibling was kept
C6_Witness ==
    /\ vr_pc = "returned"
    /\ GoodEnvelope
    /\ Data = <<JObj(Without(GoodPerson, "lastname")), JObj(JanePerson)>>
    /\ Len(valid_persons) = 1
    /\ valid_persons[1]["firstname"] = JStr("Jane")

\* C7: validate_response returns an empty list, and does not raise, when
\* the status is not "OK" (whatever data holds) and when data is not a
\* list; no element is handed to the record validator.
C7_BadEnvelopeIsEmpty ==
    (Validated /\ (~StatusOK \/ DataNotList)) =>
        /\ vr_pc = "returned"
        /\ valid_persons = <<>>
        /\ validated = <<>>

\* status "ERROR" with a well-formed record in data: nothing returned
C7_Witness ==
    /\ vr_pc = "returned"
    /\ Get(response_data.o, "status") = JStr("ERROR")
    /\ "data" \in DOMAIN response_data.o
    /\ response_data.o["data"] = JList(<<JObj(GoodPerson)>>)
    /\ valid_persons = <<>>
    /\ validated = <<>>

\* text that float() converts (digits only, in the samples)
NumericText(s) == Len(s) > 0 /\ \A i \in 1..Len(s) : Ch(s, i) \in Digits

\* float(v) succeeds
ConvertsToFloat(v) == v.t = "num" \/ (v.t = "str" /\ NumericText(v.s))

\* C8: a record whose latitude or longitude cannot convert to a floating
\* point number never appears in the result of validate_response.
C8_CoordinatesChecked ==
    \A k \in 1..Len(valid_persons) :
        /\ ConvertsToFloat(valid_persons[k]["address"]["latitude"])
        /\ ConvertsToFloat(valid_persons[k]["address"]["longitude"])

\* element e without the keys the dataclasses do not declare
StripExtra(e) ==
    IF e.t # "obj" THEN e
    ELSE JObj([k \in DOMAIN e.o \cap PersonFields |->
                IF k = "address" /\ e.o[k].t = "obj"
                THEN JObj([a \in DOMAIN e.o[k].o \cap AddressFields |-> e.o[k].o[a]])
                ELSE e.o[k]])

\* C9: additional keys are ignored: an element that is well-formed apart
\* from additional keys, at the top level or inside address, yields the
\* Person of the element without them.
C9_ExtraFieldsIgnored ==
    (vr_pc = "returned" /\ GoodEnvelope) =>
        \A i \in 1..Len(Data) :
            IsPerson(_validate_person(StripExtra(Data[i])))
                => /\ _validate_person(Data[i]) = _validate_person(StripExtra(Data[i]))
                   /\ _validate_person(StripExtra(Data[i])) \in Range(valid_persons)

\* C10: whatever the shape of an element, the record validator returns a
\* Person or None and does not raise, so validate_response does not raise
\* and goes through every element of the batch.
C10_ValidatorNeverRaises ==
    /\ vr_pc # "raised"
    /\ (vr_pc = "returned" /\ GoodEnvelope) =>
        /\ validated = Data
        /\ \A i \in 1..Len(Data) :
            \/ _validate_person(Data[i]) = NoneVal
            \/ IsPerson(_validate_person(Data[i]))

\* an element that is no mapping and one whose address is no mapping were
\* both rejected, and the well-formed element after them was still reached
C10_Witness ==
    /\ vr_pc = "returned"
    /\ GoodEnvelope
    /\ Len(Data) = 2
    /\ Data[1] \in {JNull, JNum(5), JStr("birthday"),
                    JObj(With(GoodPerson, "address", JNull)),
                    JObj(With(GoodPerson, "birthday", JNum(19900101)))}
    /\ Data[2] = JObj(GoodPerson)
    /\ validated = Data
    /\ Len(valid_persons) = 1

----------------------------------------------------------------------------
(* Runs of calculate_age_group on its own                                  *)

\* _birthday_start of the request: the earliest year of birth the API returns
MinBirthYear == 1900

\* the latest year of birth tried (later than every current date tried)
MaxBirthYear == 2027

\* n as text of at least w digits, with leading zeros
Pad(n, w) == IF Len(ToStr(n)) >= w THEN ToStr(n) ELSE SubSeq("0000", 1, w - Len(ToStr(n))) \o ToStr(n)

\* the text YYYY-MM-DD of a date
DateText(y, m, d) == Pad(y, 4) \o "-" \o Pad(m, 2) \o "-" \o Pad(d, 2)

Date(y, m, d) == [t |-> "date", y |-> y, m |-> m, d |-> d]

\* the birthdays calculate_age_group is run on: the first, second and last
\* days of every month of every year, and texts that are no date
BirthdayTexts ==
    {DateText(y, m, d) : y \in MinBirthYear..MaxBirthYear, m \in 1..12,
                         d \in {1, 2, 28, 29, 30, 31}}
        \cup {"invalid-date", "", "01-01-1990"}

\* the dates of datetime.now() calculate_age_group is run at
AgeNows == Todays \cup {Date(2025, 1, 1), Date(2024, 2, 29), Date(2025, 12, 31)}

InitAge ==
    /\ pc = "idle"
    /\ Idle
    /\ ValidateIdle
    /\ birthday \in {JStr(b) : b \in BirthdayTexts}
    /\ now \in AgeNows
    /\ age_pc = "call"
    /\ age_ret = NoneVal
    /\ ReportIdle
    /\ TxIdle
    /\ FetchBatchIdle

\* one call calculate_age_group(birthday)
CalculateAgeGroup ==
    /\ age_pc = "call"
    /\ age_ret' = calculate_age_group(birthday, now)
    /\ age_pc' = "done"
    /\ UNCHANGED <<birthday, now, report_vars, tx_vars, fb_vars, validate_vars, pc, fetch_vars, main_vars>>

NextAge == CalculateAgeGroup

SpecAge == InitAge /\ [][NextAge]_vars

\* a number that grows with the date
DayNumber(date) == (date.y * 12 + date.m) * 31 + date.d

\* the birthday is text that denotes a date
Parses == ~IsRaise(strptime(birthday.s))

\* the date of birth is later than the current date
InFuture == DayNumber(strptime(birthday.s)) > DayNumber(now)

\* the number of whole years completed at date today by someone born at born
WholeYears(born, today) ==
    CHOOSE n \in 0..(today.y - born.y) :
        /\ DayNumber([born EXCEPT !.y = born.y + n]) <= DayNumber(today)
        /\ DayNumber([born EXCEPT !.y = born.y + n + 1]) > DayNumber(today)

\* C11: for a birthday that parses and is not in the future,
\* calculate_age_group returns "[L-U]" with L = 10*floor(age/10) and
\* U = L+10, age being the whole years completed at the current date; age
\* lies in [L, U) and ages 9, 10 and 120 give [0-10], [10-20], [120-130].
C11_AgeGroup ==
    (age_pc = "done" /\ Parses /\ ~InFuture) =>
        LET age == WholeYears(strptime(birthday.s), now)
            L == 10 * (age \div 10)
        IN  /\ age_ret = JStr("[" \o ToStr(L) \o "-" \o ToStr(L + 10) \o "]")
            /\ L <= age /\ age < L + 10
            /\ age = 9 => age_ret = JStr("[0-10]")
            /\ age = 10 => age_ret = JStr("[10-20]")
            /\ age = 120 => age_ret = JStr("[120-130]")

\* nine years old on the eve of the tenth birthday
C11_Witness ==
    /\ age_pc = "done"
    /\ birthday = JStr("2015-01-02")
    /\ now = Date(2025, 1, 1)
    /\ age_ret = JStr("[0-10]")

\* C12: calculate_age_group fails with the future-date ValueError exactly
\* when the birthday is after the current date; a birthday equal to the
\* current date does not fail and gives [0-10].
C12_FutureBirthday ==
    age_pc = "done" =>
        /\ age_ret = Raise("ValueError") <=> (Parses /\ InFuture)
        /\ (Parses /\ strptime(birthday.s) = now) => age_ret = JStr("[0-10]")

\* born today
C12_Witness ==
    /\ age_pc = "done"
    /\ birthday = JStr("2025-01-01")
    /\ now = Date(2025, 1, 1)
    /\ age_ret = JStr("[0-10]")

----------------------------------------------------------------------------
(* Runs of the report functions on a stored table                          *)

\* the longest table built row by row
MaxRows == 4

\* the largest number of gmail.com rows of one country in the tables built
\* from per-country counts
MaxPerCountry == 3

\* the largest number_of_countries asked for
MaxTopN == 3

Row(country, email_domain, group) ==
    [id |-> NoneVal, age_group |-> group, email_domain |-> email_domain,
     country |-> JStr(country), city |-> JStr("City")]

\* the rows the tables are built from: with and without gmail.com, with no
\* email domain and no age group, in brackets below and above 60 and 100
RowKinds ==
    {Row("Germany", JStr("gmail.com"), JStr("[60-70]")),
     Row("Germany", JStr("outlook.com"), JStr("[70-80]")),
     Row("Germany", NoneVal, NoneVal),
     Row("USA", JStr("gmail.com"), JStr("[100-110]")),
     Row("USA", JStr("gmail.com"), JStr("[30-40]")),
     Row("France", JStr("gmail.com"), JStr("[90-100]")),
     Row("UK", JStr("yahoo.com"), JStr("[120-130]"))}

\* the countries of the tables built from per-country counts
CountedCountries == <<"USA", "Germany", "France", "UK", "Spain">>

\* the age groups of the first, second, ... gmail.com row of a country
CountedBrackets == <<"[30-40]", "[60-70]", "[120-130]", "[0-10]", "[50-60]">>

RECURSIVE RowsOfCounts(_, _)
\* count[c] gmail.com rows of each of the first n counted countries
RowsOfCounts(count, n) ==
    IF n = 0 THEN <<>>
    ELSE RowsOfCounts(count, n - 1) \o
         [k \in 1..count[n] |->
            Row(CountedCountries[n], JStr("gmail.com"),
                JStr(CountedBrackets[((k - 1) % Len(CountedBrackets)) + 1]))]

\* the table after the rows were inserted: the primary key counts from 1
Stored(rows) == InsertAll(<<>>, rows)

\* the tables the report functions are run on
ReportStores ==
    {Stored(l) : l \in SeqsUpTo(RowKinds, MaxRows)}
        \cup {Stored(RowsOfCounts(count, Len(CountedCountries))) :
                count \in [1..Len(CountedCountries) -> 0..MaxPerCountry]}

InitReport ==
    /\ ValidateIdle
    /\ AgeIdle
    /\ TxIdle
    /\ FetchBatchIdle
    /\ pc = "idle"
    /\ MainIdle
    /\ db \in ReportStores
    /\ number_of_countries \in 1..MaxTopN
    /\ report_pc = "percentage"
    /\ gmail_users_germany_pct = Fraction(0, 1)
    /\ top_gmail_countries = <<>>
    /\ gmail_over_60 = 0

\* gmail_users_germany_pct = calculate_gmail_users_germany_percentage(db)
CalculatePercentage ==
    /\ report_pc = "percentage"
    /\ gmail_users_germany_pct' = calculate_gmail_users_germany_percentage(db)
    /\ report_pc' = "top"
    /\ UNCHANGED <<number_of_countries, top_gmail_countries, gmail_over_60, age_vars,
                   tx_vars, fb_vars, validate_vars, pc, fetch_vars, main_vars>>

\* top_gmail_countries = get_top_gmail_countries(db, number_of_countries)
GetTopGmailCountries ==
    /\ report_pc = "top"
    /\ \E country_counts \in CountryCounts(db) :
          top_gmail_countries' = get_top_gmail_countries(country_counts, number_of_countries)
    /\ report_pc' = "over_60"
    /\ UNCHANGED <<number_of_countries, gmail_users_germany_pct, gmail_over_60, age_vars,
                   tx_vars, fb_vars, validate_vars, pc, fetch_vars, main_vars>>

\* gmail_over_60 = count_gmail_users_over_60(db)
CountGmailUsersOver60 ==
    /\ report_pc = "over_60"
    /\ gmail_over_60' = count_gmail_users_over_60(db)
    /\ report_pc' = "done"
    /\ UNCHANGED <<number_of_countries, gmail_users_germany_pct, top_gmail_countries,
                   age_vars, tx_vars, fb_vars, validate_vars, pc, fetch_vars, main_vars>>

NextReport ==
    \/ CalculatePercentage
    \/ GetTopGmailCountries
    \/ CountGmailUsersOver60

SpecReport == InitReport /\ [][NextReport]_vars

\* the rows of the table that have email_domain gmail.com and country c
GmailRowsOf(c) ==
    {k \in 1..Len(db) : db[k].email_domain = JStr("gmail.com") /\ db[k].country = c}

\* the countries that have a gmail.com row
GmailCountriesStored == {c \in {db[k].country : k \in 1..Len(db)} : GmailRowsOf(c) # {}}

\* the countries of the top n: those whose count is not below the count of
\* the n-th country by falling count, all of them when there are at most n
TopWithTies(n) ==
    IF Cardinality(GmailCountriesStored) <= n THEN GmailCountriesStored
    ELSE {c \in GmailCountriesStored :
            Cardinality({e \in GmailCountriesStored :
                           Cardinality(GmailRowsOf(e)) > Cardinality(GmailRowsOf(c))}) < n}

TopCalled == report_pc \in {"over_60", "done"}

\* C13: get_top_gmail_countries returns exactly the countries whose count of
\* gmail.com rows is at least the count of the N-th country by falling count
\* (every country when there are at most N), each once and with its count,
\* by falling count; countries tied at the N-th count are all included,
\* and the result is empty when no row has gmail.com.
C13_TopWithTies ==
    TopCalled =>
        /\ {top_gmail_countries[k][1] : k \in 1..Len(top_gmail_countries)}
              = TopWithTies(number_of_countries)
        /\ Len(top_gmail_countries) = Cardinality(TopWithTies(number_of_countries))
        /\ \A k \in 1..Len(top_gmail_countries) :
              top_gmail_countries[k][2] = Cardinality(GmailRowsOf(top_gmail_countries[k][1]))
        /\ \A a, b \in 1..Len(top_gmail_countries) :
              a < b => top_gmail_countries[a][2] >= top_gmail_countries[b][2]
        /\ GmailCountriesStored = {} => top_gmail_countries = <<>>

\* USA 3, Germany 3, France 2, UK 2, Spain 1 and N = 3: four countries
C13_Witness ==
    /\ TopCalled
    /\ number_of_countries = 3
    /\ \A n \in 1..5 :
          Cardinality(GmailRowsOf(JStr(CountedCountries[n]))) = <<3, 3, 2, 2, 1>>[n]
    /\ {top_gmail_countries[k][1] : k \in 1..Len(top_gmail_countries)}
          = {JStr("USA"), JStr("Germany"), JStr("France"), JStr("UK")}

\* the position of the first "-" of text s (0 when there is none)
DashAt(s) ==
    IF \E k \in 1..Len(s) : SubSeq(s, k, k) = "-"
    THEN CHOOSE k \in 1..Len(s) :
            SubSeq(s, k, k) = "-" /\ \A j \in 1..(k - 1) : SubSeq(s, j, j) # "-"
    ELSE 0

\* the lower bound L of an age group "[L-U]"
LowerBound(group) == ToInt(SubSeq(group.s, 2, DashAt(group.s) - 1))

\* the rows with gmail.com whose age group is [60-70] or a later bracket
GmailAtOrAbove60 ==
    {k \in 1..Len(db) :
        /\ db[k].email_domain = JStr("gmail.com")
        /\ db[k].age_group # NoneVal
        /\ LowerBound(db[k].age_group) >= 60}

\* C14: count_gmail_users_over_60 returns the number of rows with
\* email_domain gmail.com whose age group is [60-70] or any later bracket,
\* brackets from [100-110] on included.
C14_Over60Counted ==
    report_pc = "done" => gmail_over_60 = Cardinality(GmailAtOrAbove60)

GermanRows == {k \in 1..Len(db) : db[k].country = JStr("Germany")}

GermanGmailRows == {k \in GermanRows : db[k].email_domain = JStr("gmail.com")}

PercentageCalled == report_pc \in {"top", "over_60", "done"}

\* C16: calculate_gmail_users_germany_percentage returns 100 * (German
\* gmail.com rows) / (German rows) when there is a German row and 0.0, with
\* no division error, when there is none; the result is within 0..100.
C16_GermanyPercentage ==
    PercentageCalled =>
        /\ ~IsRaise(gmail_users_germany_pct)
        /\ gmail_users_germany_pct.den > 0
        /\ gmail_users_germany_pct.num * Cardinality(GermanRows)
              = 100 * Cardinality(GermanGmailRows) * gmail_users_germany_pct.den
        /\ GermanRows = {} => gmail_users_germany_pct.num = 0
        /\ 0 <= gmail_users_germany_pct.num
        /\ gmail_users_germany_pct.num <= 100 * gmail_users_germany_pct.den

\* four German rows, two of them gmail.com: 50.0
C16_Witness ==
    /\ PercentageCalled
    /\ Cardinality(GermanRows) = 4
    /\ Cardinality(GermanGmailRows) = 2
    /\ gmail_users_germany_pct.num = 50 * gmail_users_germany_pct.den

\* no German row: 0.0
C16_WitnessNoGerman ==
    /\ PercentageCalled
    /\ GermanRows = {}
    /\ gmail_users_germany_pct.num = 0

----------------------------------------------------------------------------
(* Runs of Database.transaction                                            *)

\* the largest number of rows one with-block adds
MaxAdds == 2

\* the largest number of transactions run one after the other
MaxTransactions == 2

\* the rows a with-block adds
TxRows ==
    {Row("USA", JStr("example.com"), JStr("[20-30]")),
     Row("Germany", JStr("gmail.com"), JStr("[60-70]")),
     Row("France", NoneVal, NoneVal)}

\* what a with-block may raise; KeyboardInterrupt is no Exception
BlockExceptions == {"Exception", "ValueError", "KeyboardInterrupt"}

\* except Exception
CaughtByTransaction(e) == e # "KeyboardInterrupt"

InitTransaction ==
    /\ ValidateIdle
    /\ AgeIdle
    /\ ReportIdle
    /\ FetchBatchIdle
    /\ pc = "idle"
    /\ MainIdle
    /\ db \in InitialStores
    /\ session = Session(FALSE, <<>>)
    /\ tx_pc = "idle"
    /\ tx_exc = ""
    /\ db_before = db
    /\ tx_added = <<>>
    /\ tx_count = 0

\* with db.transaction() as session: a session is made and handed to the block
TxBegin ==
    /\ tx_pc \in {"idle", "returned", "raised"}
    /\ tx_count < MaxTransactions
    /\ tx_count' = tx_count + 1
    /\ session' = Session(TRUE, <<>>)
    /\ tx_exc' = ""
    /\ db_before' = db
    /\ tx_added' = <<>>
    /\ tx_pc' = "block"
    /\ UNCHANGED <<age_vars, report_vars, fb_vars, validate_vars, pc, fetch_vars, main_vars>>

\* the block calls session.add(row): the row is pending in the session
TxAdd ==
    /\ tx_pc = "block"
    /\ Len(tx_added) < MaxAdds
    /\ \E row \in TxRows :
          /\ session' = [session EXCEPT !.new = Append(@, row)]
          /\ tx_added' = Append(tx_added, row)
    /\ UNCHANGED <<tx_pc, tx_exc, db_before, tx_count, age_vars, report_vars, fb_vars,
                   validate_vars, pc, fetch_vars, main_vars>>

\* an exception in the block that ends with the pending rows saved
TxBlockRaises_Saves ==
    /\ tx_pc = "block"
    /\ \E e \in BlockExceptions :
          /\ tx_exc' = e
          /\ tx_pc' = "finally"
    /\ db' = InsertAll(db, session.new)
    /\ session' = [session EXCEPT !.new = <<>>]
    /\ UNCHANGED <<db_before, tx_added, tx_count, age_vars, report_vars, fb_vars,
                   validate_vars, pc, fetch_vars, anonymized_persons, report, error>>

\* the block raises: the exception is thrown into the generator at its
\* yield, where except Exception catches it or not
TxBlockRaises ==
    /\ tx_pc = "block"
    /\ \E e \in BlockExceptions :
          /\ tx_exc' = e
          /\ tx_pc' = IF CaughtByTransaction(e) THEN "except" ELSE "finally"
    /\ UNCHANGED <<session, db_before, tx_added, tx_count, age_vars, report_vars, fb_vars,
                   validate_vars, pc, fetch_vars, main_vars>>

\* the block ends and session.commit() succeeds: the pending rows are stored
TxCommit ==
    /\ tx_pc = "block"
    /\ db' = InsertAll(db, session.new)
    /\ session' = [session EXCEPT !.new = <<>>]
    /\ tx_pc' = "finally"
    /\ UNCHANGED <<tx_exc, db_before, tx_added, tx_count, age_vars, report_vars, fb_vars,
                   validate_vars, pc, fetch_vars, anonymized_persons, report, error>>

\* the block ends and session.commit() raises: nothing is stored
TxCommitFails ==
    /\ tx_pc = "block"
    /\ tx_exc' = "SQLAlchemyError"
    /\ tx_pc' = "except"
    /\ UNCHANGED <<session, db_before, tx_added, tx_count, age_vars, report_vars, fb_vars,
                   validate_vars, pc, fetch_vars, main_vars>>

\* except Exception: session.rollback(); raise
TxRollback ==
    /\ tx_pc = "except"
    /\ session' = [session EXCEPT !.new = <<>>]
    /\ tx_pc' = "finally"
    /\ UNCHANGED <<tx_exc, db_before, tx_added, tx_count, age_vars, report_vars, fb_vars,
                   validate_vars, pc, fetch_vars, main_vars>>

\* finally: session.close() gives the connection back, rows that are still
\* pending are dropped; then the with statement returns or raises
TxClose ==
    /\ tx_pc = "finally"
    /\ session' = Session(FALSE, <<>>)
    /\ tx_pc' = IF tx_exc = "" THEN "returned" ELSE "raised"
    /\ UNCHANGED <<tx_exc, db_before, tx_added, tx_count, age_vars, report_vars, fb_vars,
                   validate_vars, pc, fetch_vars, main_vars>>

NextTransaction ==
    \/ TxBegin
    \/ TxAdd
    \/ TxBlockRaises
    \/ TxCommit
    \/ TxCommitFails
    \/ TxRollback
    \/ TxClose

SpecTransaction == InitTransaction /\ [][NextTransaction]_vars

\* C15: a transaction block is atomic: when the with statement returns, all
\* rows the block added are stored; when it raises, the stored rows are
\* those from before the block and the exception reaches the caller; either
\* way the session is closed, and nothing of a block is stored before its
\* commit.
C15_TransactionAtomic ==
    /\ tx_pc = "returned" =>
          /\ tx_exc = ""
          /\ Len(db) = Len(db_before) + Len(tx_added)
          /\ SubSeq(db, 1, Len(db_before)) = db_before
          /\ \A k \in 1..Len(tx_added) :
                \A f \in {"age_group", "email_domain", "country", "city"} :
                    db[Len(db_before) + k][f] = tx_added[k][f]
    /\ tx_pc = "raised" =>
          /\ tx_exc # ""
          /\ db = db_before
    /\ tx_pc \in {"returned", "raised"} => ~session.open /\ session.new = <<>>
    /\ tx_pc \in {"block", "except"} => db = db_before

\* a block added rows and raised: nothing of it is stored
C15_Witness ==
    /\ tx_pc = "raised"
    /\ tx_exc = "Exception"
    /\ tx_added # <<>>
    /\ db = db_before
    /\ ~session.open

\* a block added rows and ended: they are stored
C15_WitnessCommitted ==
    /\ tx_pc = "returned"
    /\ tx_added # <<>>
    /\ Len(db) = Len(db_before) + Len(tx_added)
    /\ ~session.open

----------------------------------------------------------------------------
(* Runs of _fetch_batch: one GET under the retry policy of the session     *)

\* Retry(total=3, ...)
RetryTotal == 3

\* Retry(..., status_forcelist=[429, 500, 502, 503, 504])
StatusForcelist == {429, 500, 502, 503, 504}

\* urllib3's Retry.RETRY_AFTER_STATUS_CODES: retried when the response has
\* a Retry-After header (respect_retry_after_header is left at True)
RETRY_AFTER_STATUS_CODES == {413, 429, 503}

\* the responses one request may get: a status, whether a Retry-After
\* header came with it, and the body of a 200
AttemptResponses ==
    {[status |-> 200, retry_after |-> FALSE, body |-> r.body] :
        r \in {h \in HttpResponses : h.kind = "json"}}
        \cup {[status |-> st, retry_after |-> ra, body |-> JNull] :
                st \in {400, 404, 413, 501} \cup StatusForcelist, ra \in BOOLEAN}

\* Retry.is_retry for a GET, of a Retry object with total retries left: a
\* status of the forcelist whatever total is; a status retried for its
\* Retry-After header only while total is not 0
is_retry(total, response) ==
    \/ response.status \in StatusForcelist
    \/ /\ total # 0
       /\ response.retry_after
       /\ response.status \in RETRY_AFTER_STATUS_CODES

\* retries used up one request too early
is_exhausted_AtZero(total) == total <= 0

\* Retry.is_exhausted of the Retry object that increment() makes
is_exhausted(total) == total < 0

\* response.raise_for_status() raises HTTPError
IsHttpError(response) == response.status >= 400

InitFetchBatch ==
    /\ ValidateIdle
    /\ AgeIdle
    /\ ReportIdle
    /\ TxIdle
    /\ pc = "idle"
    /\ Idle
    /\ fb_pc = "get"
    /\ retries_total = RetryTotal
    /\ attempts = 0
    /\ responses = <<>>
    /\ fb_exc = ""
    /\ fb_ret = <<>>

\* a request is answered with a status that is_retry accepts and a retry is
\* left: the adapter sleeps the backoff and sends the request again
RetryRequest ==
    /\ fb_pc = "get"
    /\ \E response \in AttemptResponses :
          /\ is_retry(retries_total, response)
          /\ ~is_exhausted(retries_total - 1)
          /\ responses' = Append(responses, response)
    /\ attempts' = attempts + 1
    /\ retries_total' = retries_total - 1
    /\ UNCHANGED <<fb_pc, fb_exc, fb_ret, age_vars, report_vars, tx_vars,
                   validate_vars, pc, fetch_vars, main_vars>>

\* a request is answered with a status that is_retry accepts and no retry
\* is left: MaxRetryError, which session.get raises as RetryError and
\* _fetch_batch logs and raises again
RetriesExhausted ==
    /\ fb_pc = "get"
    /\ \E response \in AttemptResponses :
          /\ is_retry(retries_total, response)
          /\ is_exhausted(retries_total - 1)
          /\ responses' = Append(responses, response)
    /\ attempts' = attempts + 1
    /\ fb_exc' = "RetryError"
    /\ fb_pc' = "raised"
    /\ UNCHANGED <<retries_total, fb_ret, age_vars, report_vars, tx_vars,
                   validate_vars, pc, fetch_vars, main_vars>>

\* a request is answered with another error status, or with a 413 that
\* has a Retry-After header when no retry is left: session.get returns the
\* response and raise_for_status raises HTTPError
HttpError ==
    /\ fb_pc = "get"
    /\ \E response \in AttemptResponses :
          /\ ~is_retry(retries_total, response)
          /\ IsHttpError(response)
          /\ responses' = Append(responses, response)
    /\ attempts' = attempts + 1
    /\ fb_exc' = "HTTPError"
    /\ fb_pc' = "raised"
    /\ UNCHANGED <<retries_total, fb_ret, age_vars, report_vars, tx_vars,
                   validate_vars, pc, fetch_vars, main_vars>>

\* a request is answered with 200: the body goes through validate_response
FetchBatchReturns ==
    /\ fb_pc = "get"
    /\ \E response \in AttemptResponses :
          /\ ~is_retry(retries_total, response)
          /\ ~IsHttpError(response)
          /\ responses' = Append(responses, response)
          /\ LET r == _fetch_batch([kind |-> "json", body |-> response.body])
             IN  /\ fb_exc' = r.exc
                 /\ fb_ret' = r.ret
                 /\ fb_pc' = IF r.exc = "" THEN "returned" ELSE "raised"
    /\ attempts' = attempts + 1
    /\ UNCHANGED <<retries_total, age_vars, report_vars, tx_vars,
                   validate_vars, pc, fetch_vars, main_vars>>

NextFetchBatch ==
    \/ RetryRequest
    \/ RetriesExhausted
    \/ HttpError
    \/ FetchBatchReturns

SpecFetchBatch == InitFetchBatch /\ [][NextFetchBatch]_vars

\* response k was followed, or is about to be followed, by another request
ReRequested(k) == k < Len(responses) \/ (k = Len(responses) /\ fb_pc = "get")

\* response k has a status of the list of transient statuses
Transient(response, k) == response.status \in {429, 500, 502, 503, 504}

\* response k has a status of that list, or is a 413 that came with a
\* Retry-After header while a retry was left
TransientOr413(response, k) ==
    \/ Transient(response, k)
    \/ response.status = 413 /\ response.retry_after /\ k <= RetryTotal

\* the retry policy with at most max requests per batch, Again(r, k) telling
\* whether the policy asks again after r as the k-th response
RetryPolicy(max, Again(_, _)) ==
    /\ attempts = Len(responses)
    /\ attempts <= max
    /\ \A k \in 1..Len(responses) :
          LET response == responses[k]
          IN  /\ (Again(response, k) /\ k < max) => ReRequested(k)
              /\ (Again(response, k) /\ k = max) =>
                    ~ReRequested(k) /\ fb_pc = "raised" /\ fb_exc = "RetryError"
              /\ (~Again(response, k) /\ response.status >= 400) =>
                    ~ReRequested(k) /\ fb_pc = "raised" /\ fb_exc = "HTTPError"
    /\ fb_pc = "raised" => fb_ret = <<>>
    /\ fb_pc \in {"raised", "returned"} => ~ENABLED NextFetchBatch

\* C17 as stated: a response with a status in {429, 500, 502, 503, 504} is
\* requested again, with up to 3 attempts in total for the batch; a response
\* with another error status is not requested again; after such a status,
\* or when the attempts are used up, _fetch_batch raises and makes no
\* further attempt.
C17_ThreeAttempts == RetryPolicy(3, Transient)

\* C17, amended: a response with a status in {429, 500, 502, 503, 504}, or
\* a 413 response with a Retry-After header that arrives while a retry is
\* left, is requested again, with up to 4 attempts in total for the batch
\* (the first request and 3 retries); a response with another error status,
\* a 413 as the fourth response included, is not requested again; after
\* such a status, or when the attempts are used up, _fetch_batch raises and
\* makes no further attempt.
C17_FourAttempts == RetryPolicy(RetryTotal + 1, TransientOr413)

\* four answers 503, then RetryError
C17_Witness ==
    /\ fb_pc = "raised"
    /\ fb_exc = "RetryError"
    /\ attempts = 4
    /\ \A k \in 1..4 : responses[k].status = 503

----------------------------------------------------------------------------
(* Properties of the worker pool and of the end of fetch_persons           *)

\* the batches whose fetch is executing in a worker
InFlight == {f \in 1..Len(futures) : futures[f].state = "RUNNING"}

\* the batches submitted and not yet taken by a worker
Queued == {f \in 1..Len(futures) : futures[f].state = "PENDING"}

\* C18: at most 10 batch fetches are in flight at the same time, however
\* many batches were submitted; the other submitted batches wait, and a
\* batch starts only when a worker is free.
C18_PoolBound ==
    /\ [](Cardinality(InFlight) <= 10)
    /\ [][\A f \in Queued : f \in InFlight' => Cardinality(InFlight) < 10]_vars

\* ten batches in flight and an eleventh waiting
C18_Witness ==
    /\ Cardinality(InFlight) = 10
    /\ Queued # {}
    /\ Len(futures) > 10

\* batch f has ended and the loop body has run for it
Processed(f) ==
    /\ futures[f].state = "FINISHED"
    /\ f \notin pending
    /\ \A k \in 1..Len(finished) : finished[k] # f

\* C19: fetch_persons returns only after every submitted batch has ended,
\* with a result or an exception, and has been processed: at the return no
\* batch is queued, in flight or cancelled; and when every batch fetch ends,
\* fetch_persons returns.
C19_ReturnsWhenDrained ==
    /\ [](Returned =>
            /\ Len(futures) = CeilDiv(quantity, 1000)
            /\ \A f \in 1..Len(futures) : Processed(f)
            /\ Queued = {} /\ InFlight = {})
    /\ (pc = "fetch_persons") ~> Returned

\* fetch_persons has returned after three batches, one of which had failed
C19_Witness ==
    /\ pc = "check"
    /\ Len(futures) = 3
    /\ \A f \in 1..3 : Processed(f)
    /\ \E f \in 1..3 : futures[f].exc # ""

\* how often _fetch_batch was called for batch number b
CallsOf(b) == Cardinality({k \in 1..Len(fetch_calls) : fetch_calls[k] = b})

\* C20: each batch is submitted once: a failed batch is not submitted or
\* fetched again, so when fetch_persons returns _fetch_batch has been called
\* once for each batch, as many times as there are batches, however many
\* of them failed.
C20_EachBatchOnce ==
    /\ Len(futures) <= CeilDiv(quantity, 1000)
    /\ \A b \in 1..Len(futures) : futures[b].batch_num = b /\ CallsOf(b) <= 1
    /\ Returned =>
          /\ Len(fetch_calls) = CeilDiv(quantity, 1000)
          /\ \A b \in 1..CeilDiv(quantity, 1000) : CallsOf(b) = 1

\* three batches, two of them failed: three calls
C20_Witness ==
    /\ pc = "check"
    /\ CeilDiv(quantity, 1000) = 3
    /\ Cardinality({f \in 1..Len(futures) : futures[f].exc # ""}) = 2
    /\ Len(fetch_calls) = 3

----------------------------------------------------------------------------
(* Properties of the order of the result                                   *)

RECURSIVE ConcatResults(_)
\* the record lists of the successful batches among order, one after the other
ConcatResults(order) ==
    IF order = <<>> THEN <<>>
    ELSE (IF futures[Head(order)].exc = "" THEN futures[Head(order)].result ELSE <<>>)
            \o ConcatResults(Tail(order))

\* the batches that had ended when the collection started
EarlyBatches == {completed[k] : k \in 1..early_count}

\* the batches that ended after the collection had started, in that order
LaterBatches == SubSeq(completed, early_count + 1, Len(completed))

\* C21 as stated: the returned list is the record lists of the successful
\* batches one after the other in the order in which the batches completed,
\* also for the batches that had completed when the collection started.
C21_CompletionOrder ==
    Returned => all_persons = ConcatResults(completed)

\* C21, amended: the returned list is the record lists of the successful
\* batches one after the other, each list unbroken and in its own order:
\* first the batches that had completed when the collection started, in
\* any order, then the other batches in the order in which they completed.
C21_EarlyInAnyOrder ==
    Returned =>
        \E early \in Orderings(EarlyBatches) :
            all_persons = ConcatResults(early \o LaterBatches)

\* two batches had completed when the collection started and the records
\* of the one that completed second come first; a third completed later
C21_Witness ==
    /\ pc = "check"
    /\ early_count = 2
    /\ Len(completed) = 3
    /\ futures[completed[1]].result # <<>>
    /\ futures[completed[2]].result # <<>>
    /\ futures[completed[3]].result # <<>>
    /\ all_persons = ConcatResults(<<completed[2], completed[1], completed[3]>>)
    /\ all_persons # ConcatResults(completed)

\* the calling thread is at or past the loop over as_completed
Collecting == pc = "collect" \/ Returned

\* C22: a slow or failing batch does not hold up the submission of the
\* others: all batches are submitted before the calling thread waits for
\* or merges a result, and the next batch can be submitted whatever the
\* state of the batches before it.
C22_SubmissionNotBlocked ==
    /\ Collecting => Len(futures) = CeilDiv(quantity, 1000)
    /\ ~Collecting =>
          /\ all_persons = <<>>
          /\ finished = <<>>
          /\ pending = {}
    /\ (pc = "submit" /\ Len(futures) < CeilDiv(quantity, 1000)) => ENABLED Submit

\* the third batch has been submitted while the first is still being
\* fetched and the second waits for or has a worker
C22_Witness ==
    /\ pc = "submit"
    /\ Len(futures) = 3
    /\ futures[1].state = "RUNNING"
    /\ futures[2].state # "FINISHED"
    /\ all_persons = <<>>

----------------------------------------------------------------------------
(* Properties of the anonymization and the write of a run                  *)

\* C23: anonymize_person returns an anonymized record for every person the
\* validator accepted, a person whose well-formed birthday is after the
\* current date included: the anonymization step of a run does not fail.
C23_AnonymizeNeverRaises ==
    /\ error.where # "anonymize_person"
    /\ pc \in {"write", "report", "done"} => Len(anonymized_persons) = Len(all_persons)

\* the step is the one committed write of all anonymized records
WritesAll ==
    /\ pc = "write"
    /\ pc' = "report"
    /\ all_persons # <<>>
    /\ Len(anonymized_persons) = Len(all_persons)
    /\ Len(db') = Len(db) + Len(anonymized_persons)
    /\ SubSeq(db', 1, Len(db)) = db
    /\ \A k \in 1..Len(anonymized_persons) :
          NoKey(db'[Len(db) + k]) = anonymized_persons[k]

\* C24: a run writes all or nothing: the table changes in one step only,
\* the committed write of the anonymized records of all fetched persons;
\* a run that ends with an exception, in the anonymization or in the write,
\* leaves the table as it was and prints no report; the report is made
\* after the write and from the table the write has left.
C24_WriteAllOrNothing ==
    /\ [][db' # db => WritesAll]_vars
    /\ [][pc' = "error" => db' = db /\ report' = NoneVal]_vars
    /\ [][report' # report => pc = "report" /\ db' = db /\ report' \in Reports(db)]_vars
    /\ [](pc = "error" => report = NoneVal)
    /\ [](pc \in {"report", "done"} =>
            /\ error = NoError
            /\ Len(db) >= Len(anonymized_persons)
            /\ \A k \in 1..Len(anonymized_persons) :
                  NoKey(db[Len(db) - Len(anonymized_persons) + k]) = anonymized_persons[k])

\* the write of a run failed: the table is an earlier run's, no report
C24_Witness ==
    /\ pc = "error"
    /\ error.where = "write_persons"
    /\ Len(anonymized_persons) >= 2
    /\ db \in InitialStores
    /\ db # <<>>
    /\ report = NoneVal

\* the anonymization of one person of several failed: nothing is written
C24_WitnessAnonymize ==
    /\ pc = "error"
    /\ error.where = "anonymize_person"
    /\ Len(all_persons) >= 2
    /\ db \in InitialStores
    /\ report = NoneVal

====
